---- MODULE Spec2Model ----
(***************************************************************************)
(* A model of health_check.py: main loads a list of endpoint descriptors,  *)
(* monitor_endpoints probes them cycle after cycle, counts the outcomes    *)
(* per domain and prints the availability of every domain.                 *)
(*                                                                         *)
(* Python strings that the code parses or converts (URLs, method names)    *)
(* are sequences of one-character strings, so that urlparse and            *)
(* str.upper are computed character by character.                          *)
(*                                                                         *)
(* Spec is the program; SpecAvail is the report loop applied to drawn      *)
(* counters; SpecRace is the recording lines run by two threads at once.   *)
(***************************************************************************)
EXTENDS Integers, Sequences, FiniteSets, TLC

\* ------------------------------------------------------------------ bounds

\* Number of probes of one run that are explored: a new cycle starts only
\* while all its probes fit.
MaxProbes == 6

\* Largest counter value drawn for the report computation taken alone.
MaxCount == 8

\* --------------------------------------------------------------- constants

\* send_request: 200 <= response.status_code < 300
StatusLow == 200
StatusHigh == 300
\* send_request: latency < 500 (milliseconds)
LatencyLimit == 500
\* send_request: timeout=1 (second), in milliseconds
TimeoutMs == 1000
\* create_session: HTTPAdapter(max_retries=0)
MaxRetries == 0

\* ------------------------------------------------------------- characters

LowerCase == <<"a","b","c","d","e","f","g","h","i","j","k","l","m",
               "n","o","p","q","r","s","t","u","v","w","x","y","z">>
UpperCase == <<"A","B","C","D","E","F","G","H","I","J","K","L","M",
               "N","O","P","Q","R","S","T","U","V","W","X","Y","Z">>

\* str.upper on one character.
UpperChar(c) ==
  IF \E k \in 1..Len(LowerCase) : LowerCase[k] = c
  THEN UpperCase[CHOOSE k \in 1..Len(LowerCase) : LowerCase[k] = c]
  ELSE c

\* str.upper: method.upper() of send_request.
StrUpper(s) == [k \in 1..Len(s) |-> UpperChar(s[k])]

\* The keys of method_switcher; the value of a key is the session's request
\* function of that name, written here as the key itself.
MethodSwitcherKeys ==
  { <<"G","E","T">>, <<"P","O","S","T">>, <<"P","U","T">>,
    <<"D","E","L","E","T","E">>, <<"H","E","A","D">>,
    <<"O","P","T","I","O","N","S">>, <<"P","A","T","C","H">> }

\* method_switcher.get(method.upper(), session.get)
RequestFunction(method) ==
  IF StrUpper(method) \in MethodSwitcherKeys THEN StrUpper(method) ELSE <<"G","E","T">>

\* ------------------------------------------------------------------- URLs

\* The first position >= k of s holding a character of cs, Len(s)+1 if none.
RECURSIVE FindFrom(_, _, _)
FindFrom(s, cs, k) ==
  IF k > Len(s) THEN Len(s) + 1
  ELSE IF s[k] \in cs THEN k
  ELSE FindFrom(s, cs, k + 1)

SchemeChars ==
  {LowerCase[k] : k \in 1..Len(LowerCase)} \cup {UpperCase[k] : k \in 1..Len(UpperCase)}
    \cup {"0","1","2","3","4","5","6","7","8","9","+","-","."}

\* urlsplit: what follows "<scheme>:", the whole string when there is no scheme.
AfterScheme(url) ==
  LET c == FindFrom(url, {":"}, 1)
  IN IF c > 1 /\ c <= Len(url) /\ \A k \in 1..(c - 1) : url[k] \in SchemeChars
     THEN SubSeq(url, c + 1, Len(url))
     ELSE url

\* A mutant of NetLoc: the key is the whole URL.
NetLocWholeUrl(url) == url

\* urlparse(url).netloc: the text between "//" and the next "/", "?" or "#".
NetLoc(url) ==
  LET rest == AfterScheme(url)
  IN IF Len(rest) >= 2 /\ rest[1] = "/" /\ rest[2] = "/"
     THEN SubSeq(rest, 3, FindFrom(rest, {"/", "?", "#"}, 3) - 1)
     ELSE <<>>

Http == <<"h","t","t","p",":","/","/">>
UrlAX  == Http \o <<"a","/","x">>
UrlAY  == Http \o <<"a","/","y">>
UrlAQ  == Http \o <<"a","?","q">>
UrlA8X == Http \o <<"a",":","8","/","x">>
UrlBX  == Http \o <<"b","/","x">>
UrlB   == Http \o <<"b">>

\* --------------------------------------------------- endpoint descriptors

\* A Python value of a descriptor: a string or None.
Str(s) == [t |-> "str", v |-> s]
None == [t |-> "None", v |-> <<>>]

\* A descriptor as yaml.safe_load returns it: the keys present and their values.
Endpoint(url, method) == [keys |-> {"url", "method"}, url |-> url, method |-> method]
EndpointNoMethod(url) == [keys |-> {"url"}, url |-> url, method |-> None]
EndpointNoUrl(method) == [keys |-> {"method"}, url |-> <<>>, method |-> method]

\* The endpoint lists the configuration file may hold.
Configs ==
  { <<EndpointNoMethod(UrlAX)>>,
    <<Endpoint(UrlAX, Str(<<"g","e","t">>)), Endpoint(UrlAY, Str(<<"P","o","s","t">>))>>,
    <<Endpoint(UrlAX, Str(<<"F","O","O">>)), Endpoint(UrlBX, Str(<<"G","E","T">>)),
      Endpoint(UrlAQ, Str(<<"p","a","t","c","h">>))>>,
    <<Endpoint(UrlAX, Str(<<"h","e","a","d">>)), Endpoint(UrlA8X, Str(<<"D","E","L","E","T","E">>))>>,
    <<Endpoint(UrlAX, None), Endpoint(UrlBX, Str(<<"P","U","T">>))>>,
    <<Endpoint(UrlB, Str(<<"o","p","t","i","o","n","s">>)), EndpointNoUrl(Str(<<"G","E","T">>))>> }

\* What open() and yaml.safe_load make of the configuration file.
ConfigFiles ==
  {[kind |-> "missing", value |-> <<>>], [kind |-> "unparsable", value |-> <<>>],
   [kind |-> "empty", value |-> <<>>]}
    \cup {[kind |-> "parsed", value |-> c] : c \in Configs \cup {<<>>}}

\* -------------------------------------------------------------- responses

Statuses == {199, 200, 299, 300, 404}
Latencies == {50, 499, 500, 600}

\* The subclasses of requests.RequestException a request raises: connection
\* refused or DNS failure, no response within the timeout, malformed response.
RequestExceptions == {"ConnectionError", "Timeout", "ChunkedEncodingError"}

NoResponse == [kind |-> "none", status_code |-> 0, latency |-> 0, exc |-> ""]
Response(s, l) == [kind |-> "response", status_code |-> s, latency |-> l, exc |-> ""]
Raised(e) == [kind |-> "raised", status_code |-> 0, latency |-> 0, exc |-> e]

\* What session.<method>(url, ..., timeout=1) does: it returns a response, the
\* time elapsed since start_time being latency, or raises.
RequestOutcomes ==
  {Response(s, l) : s \in Statuses, l \in Latencies} \cup {Raised(e) : e \in RequestExceptions}

\* A mutant of IsUp: the latency gate admits 500 ms.
IsUpInclusive(r) ==
  /\ StatusLow <= r.status_code /\ r.status_code < StatusHigh
  /\ r.latency <= LatencyLimit

\* send_request: 200 <= response.status_code < 300 and latency < 500
IsUp(r) ==
  /\ StatusLow <= r.status_code /\ r.status_code < StatusHigh
  /\ r.latency < LatencyLimit

\* A mutant of Catches: except requests.ConnectionError
CatchesConnectionError(e) == e = "ConnectionError"

\* send_request: except requests.RequestException
Catches(e) == e \in RequestExceptions

\* ------------------------------------------------------------- aggregator

\* domain_totals[d] of a defaultdict(int), read.
TotalOf(totals, d) == IF d \in DOMAIN totals THEN totals[d] ELSE 0

\* A mutant of IncTotal: domain_totals[domain] = 1
IncTotalAssign(totals, d) ==
  [x \in DOMAIN totals \cup {d} |-> IF x = d THEN 1 ELSE totals[x]]

\* domain_totals[domain] += 1
IncTotal(totals, d) ==
  [x \in DOMAIN totals \cup {d} |-> IF x = d THEN TotalOf(totals, d) + 1 ELSE totals[x]]

\* domain_stats is a dict in insertion order: a sequence of entries.
HasStat(stats, d) == \E k \in 1..Len(stats) : stats[k].domain = d
StatIdx(stats, d) == CHOOSE k \in 1..Len(stats) : stats[k].domain = d

\* domain_stats[d] of the defaultdict: a missing key is inserted with zeros.
WithStat(stats, d) ==
  IF HasStat(stats, d) THEN stats ELSE Append(stats, [domain |-> d, up |-> 0, down |-> 0])

\* A mutant of IncStat: every outcome is counted as up.
IncStatAlwaysUp(stats, d, st) ==
  LET s == WithStat(stats, d)
  IN [s EXCEPT ![StatIdx(s, d)].up = @ + 1]

\* A mutant of IncStat: the else branch is missing.
IncStatUpOnly(stats, d, st) ==
  IF st = "UP"
  THEN LET s == WithStat(stats, d) IN [s EXCEPT ![StatIdx(s, d)].up = @ + 1]
  ELSE stats

\* if status == 'UP': domain_stats[domain]['up'] += 1, else ['down'] += 1
IncStat(stats, d, st) ==
  LET s == WithStat(stats, d)
  IN IF st = "UP"
     THEN [s EXCEPT ![StatIdx(s, d)].up = @ + 1]
     ELSE [s EXCEPT ![StatIdx(s, d)].down = @ + 1]

\* A mutant of Round: a tie goes up.
RoundHalfUp(n, d) == (2 * n + d) \div (2 * d)

\* round() of the float n/d, n >= 0 and d > 0: to the nearest integer, a tie to
\* the even one. For the counts of a run the float quotient lies on the same
\* side of every half-integer as n/d and equals it when n/d is a half-integer,
\* so the exact quotient is rounded here.
Round(n, d) ==
  LET q == n \div d
      r == n % d
  IN IF 2 * r < d THEN q
     ELSE IF 2 * r > d THEN q + 1
     ELSE IF q % 2 = 0 THEN q ELSE q + 1

\* A mutant of Availability: the quotient is truncated.
AvailabilityTruncated(up, total_count) ==
  IF total_count # 0 THEN (100 * up) \div total_count ELSE 0

\* round((100 * stats['up'] / total_count) if total_count else 0)
Availability(up, total_count) ==
  IF total_count # 0 THEN Round(100 * up, total_count) ELSE 0

\* ------------------------------------------------------------------ state

VARIABLES
  pc,            \* the position of the program
  endpoints,     \* main/monitor_endpoints: the loaded endpoint list
  cycle,         \* the number of the current pass of the while loop
  i,             \* the position of "for endpoint in endpoints"
  url,           \* monitor_endpoints: url
  status,        \* monitor_endpoints: status
  domain,        \* monitor_endpoints: domain
  domain_stats,  \* monitor_endpoints: domain_stats
  domain_totals, \* monitor_endpoints: domain_totals
  session,       \* monitor_endpoints: session
  req,           \* the request in flight or last issued
  resp,          \* send_request: response, or the exception raised in the try,
                 \* of the probe in hand (kept until the loop takes the next endpoint)
  exc,           \* the exception that ended the program, "" if none
  report,        \* the lines printed by the last report
  issued,        \* history: the endpoints requested, in order
  log,           \* history: the outcomes check_endpoint returned, in order
  recorded,      \* history: the <<domain, outcome>> pairs counted in full, in order
  reports,       \* history: the number of reports printed
  config,        \* history: what main found in the configuration file
  exit_code,     \* the status of sys.exit / exit, -1 while none was called
  recorders      \* the threads that run the recording lines side by side

vars == <<pc, endpoints, cycle, i, url, status, domain, domain_stats, domain_totals,
          session, req, resp, exc, report, issued, log, recorded, reports,
          config, exit_code, recorders>>

NoSession == [created |-> 0, max_retries_http |-> -1, max_retries_https |-> -1]
NoRequest == [method |-> <<>>, url |-> <<>>, session |-> 0, timeout |-> 0, attempts |-> 0]
NoTotals == [x \in {} |-> 0]
NoConfig == [kind |-> "unread", value |-> <<>>]
NoRecorders == <<>>

LoopPcs == {"for", "request", "classify", "total", "stat", "report", "sleep"}

Init ==
  /\ pc = "main"
  /\ endpoints = <<>>
  /\ cycle = 0
  /\ i = 0
  /\ url = <<>>
  /\ status = ""
  /\ domain = <<>>
  /\ domain_stats = <<>>
  /\ domain_totals = NoTotals
  /\ session = NoSession
  /\ req = NoRequest
  /\ resp = NoResponse
  /\ exc = ""
  /\ report = <<>>
  /\ issued = <<>>
  /\ log = <<>>
  /\ recorded = <<>>
  /\ reports = 0
  /\ config = NoConfig
  /\ exit_code = -1
  /\ recorders = NoRecorders

\* ------------------------------------------------------------------- main

\* load_endpoints: the value returned, or the exit taken.
LoadEndpoints(file) ==
  IF file.kind \in {"missing", "unparsable"}
  THEN [exits |-> TRUE, value |-> <<>>]
  ELSE [exits |-> FALSE, value |-> file.value]

\* A mutant of Main: "if not endpoints" is missing.
MainNoEmptyCheck ==
  /\ pc = "main"
  /\ \E argc \in {1, 2}, file \in ConfigFiles :
       LET loaded == LoadEndpoints(file)
       IN /\ config' = IF argc = 2 THEN file ELSE NoConfig
          /\ IF argc # 2 \/ loaded.exits
             THEN /\ pc' = "exited"
                  /\ exit_code' = 1
                  /\ UNCHANGED endpoints
             ELSE /\ pc' = "monitor"
                  /\ endpoints' = loaded.value
                  /\ UNCHANGED exit_code
  /\ UNCHANGED <<cycle, i, url, status, domain, domain_stats, domain_totals, session,
                 req, resp, exc, report, issued, log, recorded, reports, recorders>>

\* main: the argument check, load_endpoints, the emptiness check and the call
\* of monitor_endpoints.
Main ==
  /\ pc = "main"
  /\ \E argc \in {1, 2}, file \in ConfigFiles :
       LET loaded == LoadEndpoints(file)
       IN /\ config' = IF argc = 2 THEN file ELSE NoConfig
          /\ IF argc # 2 \/ loaded.exits \/ Len(loaded.value) = 0
             THEN /\ pc' = "exited"
                  /\ exit_code' = 1
                  /\ UNCHANGED endpoints
             ELSE /\ pc' = "monitor"
                  /\ endpoints' = loaded.value
                  /\ UNCHANGED exit_code
  /\ UNCHANGED <<cycle, i, url, status, domain, domain_stats, domain_totals, session,
                 req, resp, exc, report, issued, log, recorded, reports, recorders>>

\* A mutant of CreateSession: the adapter retries three times.
CreateSessionRetrying(s) ==
  [created |-> s.created + 1, max_retries_http |-> 3, max_retries_https |-> 3]

\* create_session: one more session, retries disabled for http:// and https://.
CreateSession(s) ==
  [created |-> s.created + 1, max_retries_http |-> MaxRetries, max_retries_https |-> MaxRetries]

\* The attempts the session makes for one request: the first one and the
\* retries of the adapter mounted for the prefix of the URL.
Attempts(s, u) ==
  IF Len(u) >= 8 /\ SubSeq(u, 1, 8) = <<"h","t","t","p","s",":","/","/">>
  THEN 1 + s.max_retries_https
  ELSE 1 + s.max_retries_http

\* monitor_endpoints up to the while loop: the empty counters and the session.
StartMonitor ==
  /\ pc = "monitor"
  /\ domain_stats' = <<>>
  /\ domain_totals' = NoTotals
  /\ session' = CreateSession(session)
  /\ cycle' = 1
  /\ i' = 0
  /\ pc' = "for"
  /\ UNCHANGED <<endpoints, url, status, domain, req, resp, exc, report,
                 issued, log, recorded, reports>>
  /\ UNCHANGED <<config, exit_code, recorders>>

\* A mutant of ForNext: an endpoint found DOWN is probed a second time.
ForNextRetry ==
  /\ pc = "for"
  /\ IF i > 0 /\ status = "DOWN" /\ Len(issued) >= 1
        /\ (Len(issued) = 1 \/ issued[Len(issued) - 1] # i)
     THEN /\ pc' = "request"
          /\ UNCHANGED <<i, url, exc>>
     ELSE IF i < Len(endpoints)
     THEN /\ i' = i + 1
          /\ url' = endpoints[i + 1].url
          /\ pc' = "request"
          /\ UNCHANGED exc
     ELSE /\ pc' = "report"
          /\ UNCHANGED <<i, url, exc>>
  /\ resp' = NoResponse
  /\ UNCHANGED <<endpoints, cycle, status, domain, domain_stats, domain_totals, session,
                 req, report, issued, log, recorded, reports>>
  /\ UNCHANGED <<config, exit_code, recorders>>

\* A mutant of ForNext: the pass ends one endpoint early.
ForNextStopsEarly ==
  /\ pc = "for"
  /\ IF i < Len(endpoints) - 1
     THEN /\ i' = i + 1
          /\ url' = endpoints[i + 1].url
          /\ pc' = "request"
     ELSE /\ pc' = "report"
          /\ UNCHANGED <<i, url>>
  /\ resp' = NoResponse
  /\ UNCHANGED <<endpoints, cycle, status, domain, domain_stats, domain_totals, session,
                 req, exc, report, issued, log, recorded, reports>>
  /\ UNCHANGED <<config, exit_code, recorders>>

\* "for endpoint in endpoints" and "url = endpoint['url']": the next endpoint,
\* or the end of the pass. A descriptor without the key url raises KeyError.
ForNext ==
  /\ pc = "for"
  /\ IF i < Len(endpoints)
     THEN /\ i' = i + 1
          /\ IF "url" \in endpoints[i + 1].keys
             THEN /\ url' = endpoints[i + 1].url
                  /\ pc' = "request"
                  /\ UNCHANGED exc
             ELSE /\ pc' = "crashed"
                  /\ exc' = "KeyError"
                  /\ UNCHANGED url
     ELSE /\ pc' = "report"
          /\ UNCHANGED <<i, url, exc>>
  /\ resp' = NoResponse
  /\ UNCHANGED <<endpoints, cycle, status, domain, domain_stats, domain_totals, session,
                 req, report, issued, log, recorded, reports>>
  /\ UNCHANGED <<config, exit_code, recorders>>

\* check_endpoint: endpoint.get('method', 'GET')
MethodOf(endpoint) ==
  IF "method" \in endpoint.keys THEN endpoint.method ELSE Str(<<"G","E","T">>)

\* check_endpoint and the try block of send_request up to the response:
\* method.upper() raises AttributeError on None; otherwise the request function
\* is looked up and called once, and returns a response or raises.
Request ==
  /\ pc = "request"
  /\ LET method == MethodOf(endpoints[i])
     IN IF method.t # "str"
        THEN /\ resp' = Raised("AttributeError")
             /\ UNCHANGED <<req, issued>>
        ELSE /\ req' = [method |-> RequestFunction(method.v), url |-> url,
                        session |-> session.created, timeout |-> TimeoutMs,
                        attempts |-> Attempts(session, url)]
             /\ issued' = Append(issued, i)
             /\ \E r \in RequestOutcomes : resp' = r
  /\ pc' = "classify"
  /\ UNCHANGED <<endpoints, cycle, i, url, status, domain, domain_stats, domain_totals,
                 session, exc, report, log, recorded, reports>>
  /\ UNCHANGED <<config, exit_code, recorders>>

\* The rest of send_request and the assignment of its result to status: UP for
\* a response that passes both gates, DOWN for any other response and for an
\* exception the except clause catches; any other exception leaves the program.
Classify ==
  /\ pc = "classify"
  /\ IF resp.kind = "raised" /\ ~Catches(resp.exc)
     THEN /\ pc' = "crashed"
          /\ exc' = resp.exc
          /\ UNCHANGED <<status, log>>
     ELSE /\ status' = IF resp.kind = "response" /\ IsUp(resp) THEN "UP" ELSE "DOWN"
          /\ log' = Append(log, <<i, status'>>)
          /\ pc' = "total"
          /\ UNCHANGED exc
  /\ UNCHANGED <<endpoints, cycle, i, url, domain, domain_stats, domain_totals, session,
                 req, resp, report, issued, recorded, reports>>
  /\ UNCHANGED <<config, exit_code, recorders>>

\* domain = urlparse(url).netloc and domain_totals[domain] += 1
RecordTotal ==
  /\ pc = "total"
  /\ domain' = NetLoc(url)
  /\ domain_totals' = IncTotal(domain_totals, domain')
  /\ pc' = "stat"
  /\ UNCHANGED <<endpoints, cycle, i, url, status, domain_stats, session, req, resp, exc,
                 report, issued, log, recorded, reports>>
  /\ UNCHANGED <<config, exit_code, recorders>>

\* The if/else that counts the outcome in domain_stats[domain].
RecordStat ==
  /\ pc = "stat"
  /\ domain_stats' = IncStat(domain_stats, domain, status)
  /\ recorded' = Append(recorded, <<domain, status>>)
  /\ pc' = "for"
  /\ UNCHANGED <<endpoints, cycle, i, url, status, domain, domain_totals, session, req,
                 resp, exc, report, issued, log, reports>>
  /\ UNCHANGED <<config, exit_code, recorders>>

\* A mutant of TotalsRead: the totals are cleared once they are printed.
TotalsReadReset(stats, totals) ==
  [x \in DOMAIN totals \cup {stats[k].domain : k \in 1..Len(stats)} |-> 0]

\* The domains read by total_count = domain_totals[domain]: a defaultdict
\* inserts a zero for a key it does not hold.
TotalsRead(stats, totals) ==
  [x \in DOMAIN totals \cup {stats[k].domain : k \in 1..Len(stats)} |-> TotalOf(totals, x)]

\* A mutant of ReportLines: one line per configured endpoint.
ReportLinesPerEndpoint(stats, totals) ==
  [k \in 1..Len(endpoints) |->
     LET d == NetLoc(endpoints[k].url)
     IN [domain |-> d,
         percent |-> Availability(stats[StatIdx(stats, d)].up, TotalOf(totals, d))]]

\* The lines of one report, one per item of domain_stats in its order.
ReportLines(stats, totals) ==
  [k \in 1..Len(stats) |->
     [domain |-> stats[k].domain,
      percent |-> Availability(stats[k].up, TotalOf(totals, stats[k].domain))]]

\* The for loop that prints the availability of every domain.
Report ==
  /\ pc = "report"
  /\ report' = ReportLines(domain_stats, domain_totals)
  /\ domain_totals' = TotalsRead(domain_stats, domain_totals)
  /\ domain' = IF Len(domain_stats) > 0 THEN domain_stats[Len(domain_stats)].domain ELSE domain
  /\ reports' = reports + 1
  /\ pc' = "sleep"
  /\ UNCHANGED <<endpoints, cycle, i, url, status, domain_stats, session, req, resp, exc,
                 issued, log, recorded>>
  /\ UNCHANGED <<config, exit_code, recorders>>

\* A mutant of Sleep: the counters start afresh in every pass.
SleepResetting ==
  /\ pc = "sleep"
  /\ (cycle + 1) * Len(endpoints) <= MaxProbes
  /\ cycle' = cycle + 1
  /\ i' = 0
  /\ pc' = "for"
  /\ domain_stats' = <<>>
  /\ domain_totals' = NoTotals
  /\ UNCHANGED <<endpoints, url, status, domain, session, req, resp, exc,
                 report, issued, log, recorded, reports>>
  /\ UNCHANGED <<config, exit_code, recorders>>

\* time.sleep(15) and the next pass of the while loop.
Sleep ==
  /\ pc = "sleep"
  /\ (cycle + 1) * Len(endpoints) <= MaxProbes
  /\ cycle' = cycle + 1
  /\ i' = 0
  /\ pc' = "for"
  /\ UNCHANGED <<endpoints, url, status, domain, domain_stats, domain_totals, session,
                 req, resp, exc, report, issued, log, recorded, reports>>
  /\ UNCHANGED <<config, exit_code, recorders>>

\* KeyboardInterrupt: it is raised at any point of the loop and ends the program.
Interrupt ==
  /\ pc \in LoopPcs
  /\ pc' = "interrupted"
  /\ exc' = "KeyboardInterrupt"
  /\ UNCHANGED <<endpoints, cycle, i, url, status, domain, domain_stats, domain_totals,
                 session, req, resp, report, issued, log, recorded, reports>>
  /\ UNCHANGED <<config, exit_code, recorders>>

Next ==
  \/ Main
  \/ StartMonitor
  \/ ForNext
  \/ Request
  \/ Classify
  \/ RecordTotal
  \/ RecordStat
  \/ Report
  \/ Sleep
  \/ Interrupt

Spec == Init /\ [][Next]_vars

\* ------------------------------------------------ the report taken alone

DomainA == <<"a">>
DomainB == <<"b">>

\* The report loop applied to drawn counters: two domains, each with any up
\* count and any total count, a total of zero included.
InitAvail ==
  /\ pc = "report"
  /\ endpoints = <<>>
  /\ cycle = 1
  /\ i = 0
  /\ url = <<>>
  /\ status = ""
  /\ domain = <<>>
  /\ \E ta \in 0..MaxCount, tb \in 0..MaxCount :
       \E ua \in 0..ta, ub \in 0..tb :
         /\ domain_stats = <<[domain |-> DomainA, up |-> ua, down |-> ta - ua],
                             [domain |-> DomainB, up |-> ub, down |-> tb - ub]>>
         /\ domain_totals = [x \in {DomainA, DomainB} |-> IF x = DomainA THEN ta ELSE tb]
  /\ session = CreateSession(NoSession)
  /\ req = NoRequest
  /\ resp = NoResponse
  /\ exc = ""
  /\ report = <<>>
  /\ issued = <<>>
  /\ log = <<>>
  /\ recorded = <<>>
  /\ reports = 0
  /\ config = NoConfig
  /\ exit_code = -1
  /\ recorders = NoRecorders

SpecAvail == InitAvail /\ [][Report]_vars

\* ------------------------------------- the recording run by two threads

\* The recording lines of monitor_endpoints run by two threads at once, each
\* with the domain and the outcome of its own probe. "x[k] += 1" is a read of
\* x[k], an addition and a store of x[k], and another thread may run between
\* the read and the store.
Threads == {1, 2}

Recorder(d, st) == [pc |-> "total_read", domain |-> d, status |-> st, tmp |-> 0]

InitRace ==
  /\ pc = "race"
  /\ endpoints = <<>>
  /\ cycle = 1
  /\ i = 0
  /\ url = <<>>
  /\ status = ""
  /\ domain = <<>>
  /\ domain_stats = <<>>
  /\ domain_totals = NoTotals
  /\ session = CreateSession(NoSession)
  /\ req = NoRequest
  /\ resp = NoResponse
  /\ exc = ""
  /\ report = <<>>
  /\ issued = <<>>
  /\ log = <<>>
  /\ recorded = <<>>
  /\ reports = 0
  /\ config = NoConfig
  /\ exit_code = -1
  /\ \E d1 \in {DomainA, DomainB}, d2 \in {DomainA, DomainB}, s1 \in {"UP", "DOWN"},
        s2 \in {"UP", "DOWN"} :
       recorders = [t \in Threads |-> IF t = 1 THEN Recorder(d1, s1) ELSE Recorder(d2, s2)]

\* domain_totals[domain] += 1, the read: a missing key is inserted with 0.
RaceReadTotal(t) ==
  /\ recorders[t].pc = "total_read"
  /\ domain_totals' = [x \in DOMAIN domain_totals \cup {recorders[t].domain} |->
                         TotalOf(domain_totals, x)]
  /\ recorders' = [recorders EXCEPT ![t].tmp = TotalOf(domain_totals, recorders[t].domain),
                                    ![t].pc = "total_write"]
  /\ UNCHANGED <<pc, endpoints, cycle, i, url, status, domain, domain_stats, session, req,
                 resp, exc, report, issued, log, recorded, reports, config, exit_code>>

\* domain_totals[domain] += 1, the store of the value read plus one.
RaceWriteTotal(t) ==
  /\ recorders[t].pc = "total_write"
  /\ domain_totals' = [domain_totals EXCEPT ![recorders[t].domain] = recorders[t].tmp + 1]
  /\ recorders' = [recorders EXCEPT ![t].pc = "stat_read"]
  /\ UNCHANGED <<pc, endpoints, cycle, i, url, status, domain, domain_stats, session, req,
                 resp, exc, report, issued, log, recorded, reports, config, exit_code>>

\* domain_stats[domain]['up'] += 1 or ['down'] += 1, the read: a missing key
\* is inserted with zeros.
RaceReadStat(t) ==
  /\ recorders[t].pc = "stat_read"
  /\ LET s == WithStat(domain_stats, recorders[t].domain)
         e == s[StatIdx(s, recorders[t].domain)]
     IN /\ domain_stats' = s
        /\ recorders' = [recorders EXCEPT
                            ![t].tmp = IF recorders[t].status = "UP" THEN e.up ELSE e.down,
                            ![t].pc = "stat_write"]
  /\ UNCHANGED <<pc, endpoints, cycle, i, url, status, domain, domain_totals, session, req,
                 resp, exc, report, issued, log, recorded, reports, config, exit_code>>

\* The store of the up or down count read plus one.
RaceWriteStat(t) ==
  /\ recorders[t].pc = "stat_write"
  /\ LET k == StatIdx(domain_stats, recorders[t].domain)
     IN domain_stats' = IF recorders[t].status = "UP"
                        THEN [domain_stats EXCEPT ![k].up = recorders[t].tmp + 1]
                        ELSE [domain_stats EXCEPT ![k].down = recorders[t].tmp + 1]
  /\ recorders' = [recorders EXCEPT ![t].pc = "done"]
  /\ UNCHANGED <<pc, endpoints, cycle, i, url, status, domain, domain_totals, session, req,
                 resp, exc, report, issued, log, recorded, reports, config, exit_code>>

NextRace ==
  \E t \in Threads :
    \/ RaceReadTotal(t)
    \/ RaceWriteTotal(t)
    \/ RaceReadStat(t)
    \/ RaceWriteStat(t)

SpecRace == InitRace /\ [][NextRace]_vars

\* ----------------------------------------------------------- properties

\* upCount and totalCount of a domain as the two dicts hold them.
UpCount(d) == IF HasStat(domain_stats, d) THEN domain_stats[StatIdx(domain_stats, d)].up ELSE 0
DownCount(d) == IF HasStat(domain_stats, d) THEN domain_stats[StatIdx(domain_stats, d)].down ELSE 0
TotalCount(d) == TotalOf(domain_totals, d)
UpCountNext(d) ==
  IF HasStat(domain_stats', d) THEN domain_stats'[StatIdx(domain_stats', d)].up ELSE 0
TotalCountNext(d) == TotalOf(domain_totals', d)
StatDomains == {domain_stats[k].domain : k \in 1..Len(domain_stats)}
Domains == StatDomains \cup DOMAIN domain_totals

\* The probe in hand has returned: its outcome is in status and its response
\* (or exception) still in resp.
Returned == pc \in {"total", "stat", "for"} /\ resp.kind # "none"

\* C1: send_request returns UP exactly when a response was received whose
\* status code is in [200, 300) and whose latency is below 500 ms, and DOWN in
\* every other case.
C1_UpIffStatusAndLatency ==
  Returned =>
    /\ status \in {"UP", "DOWN"}
    /\ status = "UP" <=>
         /\ resp.kind = "response"
         /\ 200 <= resp.status_code /\ resp.status_code < 300
         /\ resp.latency < 500

\* C1 witness: a 200 response that took exactly 500 ms has been classified DOWN.
C1_Witness ==
  /\ pc = "total"
  /\ resp = Response(200, 500)
  /\ status = "DOWN"

\* C2 (as claimed): no probe ends the program with an exception; the loop
\* stops by an external interruption only.
C2_NoProbeEndsLoop == pc # "crashed"

\* The steps of a probe whose request raised: classification, the two
\* increments, and the for loop's next step.
C3_Step ==
  /\ (pc = "classify" /\ resp.kind = "raised" /\ pc' # "interrupted"
        /\ resp.exc \in {"ConnectionError", "Timeout", "ChunkedEncodingError"})
       => (pc' = "total" /\ status' = "DOWN")
  /\ (pc = "total" /\ resp.kind = "raised" /\ pc' = "stat")
       => /\ TotalCountNext(domain') = TotalCount(domain') + 1
          /\ UpCountNext(domain') = UpCount(domain')
          /\ domain' = NetLoc(url)
  /\ (pc = "stat" /\ resp.kind = "raised" /\ pc' = "for")
       => /\ TotalCountNext(domain) = TotalCount(domain)
          /\ UpCountNext(domain) = UpCount(domain)
          /\ i' = i /\ cycle' = cycle
  /\ (pc = "for" /\ resp.kind = "raised" /\ i < Len(endpoints) /\ pc' # "interrupted")
       => (i' = i + 1 /\ cycle' = cycle /\ pc' \in {"request", "crashed"})

\* C3: a transport failure (connection refused or DNS failure, timeout,
\* malformed response) is classified DOWN and counted like any DOWN: the
\* domain's total grows by one, its up count stays, and the for loop goes on
\* to the next endpoint of the same cycle.
C3_TransportFailureIsDown == [][C3_Step]_vars

\* C3 witness: a timeout has been counted, total 1 and up 0, and the cycle has
\* another endpoint to take.
C3_Witness ==
  /\ pc = "for"
  /\ resp = Raised("Timeout")
  /\ status = "DOWN"
  /\ i < Len(endpoints)
  /\ TotalCount(domain) = 1
  /\ UpCount(domain) = 0

\* The request function the claim expects for a descriptor: the method of the
\* descriptor in upper case when it is one of the seven, GET otherwise.
ExpectedMethod(endpoint) ==
  IF "method" \in endpoint.keys /\ endpoint.method.t = "str"
       /\ StrUpper(endpoint.method.v) \in MethodSwitcherKeys
  THEN StrUpper(endpoint.method.v)
  ELSE <<"G","E","T">>

\* C4 (as claimed): for every descriptor the request issued uses the method of
\* the descriptor matched case-insensitively, GET when the method is
\* unrecognized or missing, and no error is raised on the way.
C4_MethodOrGet ==
  pc = "classify" =>
    /\ Len(issued) = Len(log) + 1
    /\ issued[Len(issued)] = i
    /\ req.url = endpoints[i].url
    /\ req.method = ExpectedMethod(endpoints[i])
    /\ resp.kind = "raised" => resp.exc \in RequestExceptions

\* C5: in every state, the states between the two increments of one recording
\* included, every domain has 0 <= upCount <= totalCount.
C5_UpAtMostTotal ==
  \A d \in Domains : 0 <= UpCount(d) /\ UpCount(d) <= TotalCount(d)

\* C5 witness: between the two increments of an UP outcome, total 2 and up 1.
C5_Witness ==
  /\ pc = "stat"
  /\ status = "UP"
  /\ TotalCount(domain) = 2
  /\ UpCount(domain) = 1
  /\ recorded = <<<<domain, "UP">>>>

\* The number of pairs of recorded, and of those with outcome UP, of domain d.
RecordedOf(d) == Cardinality({n \in 1..Len(recorded) : recorded[n][1] = d})
RecordedUpOf(d) == Cardinality({n \in 1..Len(recorded) : recorded[n] = <<d, "UP">>})
RecordedDomains == {recorded[n][1] : n \in 1..Len(recorded)}

C6_Step ==
  /\ (pc = "total" /\ pc' = "stat")
       => /\ TotalCountNext(domain') = TotalCount(domain') + 1
          /\ \A d \in Domains \ {domain'} : TotalCountNext(d) = TotalCount(d)
          /\ domain_stats' = domain_stats
  /\ (pc = "stat" /\ pc' = "for")
       => /\ UpCountNext(domain) = UpCount(domain) + (IF status = "UP" THEN 1 ELSE 0)
          /\ \A d \in Domains \ {domain} : UpCountNext(d) = UpCount(d)
          /\ domain_totals' = domain_totals

C6_Counts ==
  pc \notin {"stat", "interrupted"} =>
    \A d \in Domains \cup RecordedDomains :
      /\ TotalCount(d) = RecordedOf(d)
      /\ UpCount(d) = RecordedUpOf(d)

\* C6: recording one outcome adds exactly one to the domain's total whatever
\* the outcome, and exactly one to its up count if and only if the outcome is
\* UP; so after N recordings for a domain its total is N and its up count the
\* number of UP outcomes among them.
C6_RecordOutcome == [][C6_Step]_vars /\ [](C6_Counts)

\* C6 witness: three outcomes recorded for a domain, two of them UP.
C6_Witness ==
  /\ pc = "for"
  /\ RecordedOf(domain) = 3
  /\ RecordedUpOf(domain) = 2
  /\ TotalCount(domain) = 3
  /\ UpCount(domain) = 2

\* The number of configured endpoints whose URL has network location d.
EndpointsOf(d) ==
  Cardinality({k \in 1..Len(endpoints) :
                 "url" \in endpoints[k].keys /\ NetLoc(endpoints[k].url) = d})

C7_Step ==
  \A d \in Domains :
    /\ d \in StatDomains => HasStat(domain_stats', d)
    /\ d \in DOMAIN domain_totals => d \in DOMAIN domain_totals'
    /\ UpCountNext(d) >= UpCount(d)
    /\ TotalCountNext(d) >= TotalCount(d)

C7_AfterCycles ==
  pc = "sleep" =>
    \A k \in 1..Len(endpoints) :
      TotalCount(NetLoc(endpoints[k].url)) = cycle * EndpointsOf(NetLoc(endpoints[k].url))

\* C7: the counters are cumulative: no count of any domain ever decreases or
\* is reset, and after k complete cycles the total of a domain is k times the
\* number of configured endpoints of that domain.
C7_Cumulative == [][C7_Step]_vars /\ [](C7_AfterCycles)

\* C7 witness: three cycles of one endpoint that was UP, DOWN, UP: total 3,
\* up 2, availability 67.
C7_Witness ==
  /\ pc = "sleep"
  /\ cycle = 3
  /\ Len(endpoints) = 1
  /\ log = <<<<1, "UP">>, <<1, "DOWN">>, <<1, "UP">>>>
  /\ TotalCount(domain) = 3
  /\ UpCount(domain) = 2
  /\ report = <<[domain |-> domain, percent |-> 67]>>

Abs(x) == IF x < 0 THEN -x ELSE x

\* C8: the percentage printed for a domain is 100 * upCount / totalCount
\* rounded to the nearest integer when totalCount > 0 and exactly 0 when
\* totalCount = 0.
C8_PercentIsRoundedRatio ==
  pc = "sleep" =>
    /\ Len(report) = Len(domain_stats)
    /\ \A k \in 1..Len(report) :
         LET d == domain_stats[k].domain
             p == report[k].percent
         IN /\ report[k].domain = d
            /\ TotalCount(d) > 0 => 2 * Abs(100 * UpCount(d) - p * TotalCount(d)) <= TotalCount(d)
            /\ TotalCount(d) = 0 => p = 0

\* C8 witness: a report with a domain of total 0 printed as 0 and a domain of
\* 2 up out of 3 printed as 67.
C8_Witness ==
  /\ pc = "sleep"
  /\ TotalCount(DomainA) = 0
  /\ report[1] = [domain |-> DomainA, percent |-> 0]
  /\ UpCount(DomainB) = 2
  /\ TotalCount(DomainB) = 3
  /\ report[2] = [domain |-> DomainB, percent |-> 67]

\* The host and optional port of an absolute http URL, said directly: the
\* longest run of characters after "http://" that holds no "/", "?" or "#".
HostPort(u) ==
  LET body == SubSeq(u, Len(Http) + 1, Len(u))
      n == CHOOSE n \in 0..Len(body) :
             /\ \A k \in 1..n : body[k] \notin {"/", "?", "#"}
             /\ n = Len(body) \/ body[n + 1] \in {"/", "?", "#"}
  IN SubSeq(body, 1, n)

\* The endpoints whose URL has host and port d, and the outcomes logged for them.
SameLocation(d) ==
  {k \in 1..Len(endpoints) : "url" \in endpoints[k].keys /\ HostPort(endpoints[k].url) = d}
LoggedOf(ks) == Cardinality({n \in 1..Len(log) : log[n][1] \in ks})
LoggedUpOf(ks) == Cardinality({n \in 1..Len(log) : log[n][1] \in ks /\ log[n][2] = "UP"})

\* C9: endpoints whose URLs have the same host and port and different paths
\* are counted under one key, and endpoints of different hosts or ports never
\* share counters: once every returned outcome is counted, the counters under
\* the host and port of an endpoint hold exactly the outcomes of the endpoints
\* of that host and port, and there is no other key.
C9_SameNetlocSameCounters ==
  (Len(recorded) = Len(log) /\ pc # "main") =>
    /\ \A k \in 1..Len(endpoints) :
         (\E n \in 1..Len(log) : log[n][1] = k) =>
           LET d == HostPort(endpoints[k].url)
           IN /\ TotalCount(d) = LoggedOf(SameLocation(d))
              /\ UpCount(d) = LoggedUpOf(SameLocation(d))
    /\ Domains = {HostPort(endpoints[log[n][1]].url) : n \in 1..Len(log)}

\* C9 witness: of three endpoints, http://a/x and http://a?q have fed the key
\* "a" and http://b/x the key "b".
C9_Witness ==
  /\ pc = "sleep"
  /\ Len(endpoints) = 3
  /\ endpoints[1].url = UrlAX /\ endpoints[3].url = UrlAQ
  /\ TotalCount(<<"a">>) = 2
  /\ UpCount(<<"a">>) = 1
  /\ TotalCount(<<"b">>) = 1
  /\ Domains = {<<"a">>, <<"b">>}

\* C10: in every cycle every endpoint is probed exactly once, in the order of
\* the configuration and with no retry; the request for an endpoint is issued
\* only when the outcomes of all earlier requests have been classified; and
\* the outcomes are counted in that same order.
C10_SequentialInOrder ==
  LET N == Len(endpoints)
  IN /\ \A k \in 1..Len(issued) : issued[k] = ((k - 1) % N) + 1
     /\ Len(log) <= Len(issued) /\ Len(issued) <= Len(log) + 1
     /\ \A k \in 1..Len(log) : log[k][1] = issued[k]
     /\ Len(recorded) <= Len(log)
     /\ \A k \in 1..Len(recorded) :
          recorded[k] = <<NetLoc(endpoints[log[k][1]].url), log[k][2]>>
     /\ pc \in {"report", "sleep"} => Len(issued) = cycle * N /\ Len(recorded) = cycle * N

\* C10 witness: two complete cycles of three endpoints, six requests, the
\* second endpoint DOWN in the first cycle and not probed again before the third.
C10_Witness ==
  /\ pc = "sleep"
  /\ cycle = 2
  /\ issued = <<1, 2, 3, 1, 2, 3>>
  /\ log[2] = <<2, "DOWN">>
  /\ Len(recorded) = 6

\* The outcomes logged for the endpoints of network location d, and the UP ones.
LoggedFor(d) ==
  Cardinality({n \in 1..Len(log) : NetLoc(endpoints[log[n][1]].url) = d})
LoggedUpFor(d) ==
  Cardinality({n \in 1..Len(log) : NetLoc(endpoints[log[n][1]].url) = d /\ log[n][2] = "UP"})

\* C11: a report is printed only when every endpoint of the current cycle has
\* been probed and its outcome counted, its lines are computed from counters
\* that hold every outcome of the cycle, and each cycle prints exactly one.
C11_ReportAfterFullCycle ==
  /\ pc \in {"for", "request", "classify", "total", "stat", "report"} => reports = cycle - 1
  /\ pc = "report" =>
       /\ Len(log) = cycle * Len(endpoints)
       /\ Len(recorded) = Len(log)
  /\ pc = "sleep" =>
       /\ reports = cycle
       /\ Len(log) = cycle * Len(endpoints)
       /\ \A k \in 1..Len(report) :
            report[k].percent =
              Availability(LoggedUpFor(report[k].domain), LoggedFor(report[k].domain))

\* C11 witness: the second report of a run of three endpoints, all six
\* outcomes in it.
C11_Witness ==
  /\ pc = "sleep"
  /\ cycle = 2
  /\ reports = 2
  /\ Len(endpoints) = 3
  /\ Len(log) = 6
  /\ report = <<[domain |-> <<"a">>, percent |-> 75], [domain |-> <<"b">>, percent |-> 50]>>

\* C12: a report holds exactly one line for every domain observed so far in
\* the run, the domains with totalCount > 0, and no line for any other domain.
C12_OneLinePerDomain ==
  pc = "sleep" =>
    /\ \A d \in {NetLoc(endpoints[log[n][1]].url) : n \in 1..Len(log)} \cup DOMAIN domain_totals :
         TotalCount(d) > 0 =>
           Cardinality({k \in 1..Len(report) : report[k].domain = d}) = 1
    /\ \A k \in 1..Len(report) :
         /\ TotalCount(report[k].domain) > 0
         /\ \E n \in 1..Len(log) : NetLoc(endpoints[log[n][1]].url) = report[k].domain

\* C12 witness: a report of the second cycle with one line for "a", fed by two
\* endpoints, and one line for "b".
C12_Witness ==
  /\ pc = "sleep"
  /\ cycle = 2
  /\ Len(endpoints) = 3
  /\ Len(report) = 2
  /\ report[1].domain = <<"a">>
  /\ report[2].domain = <<"b">>
  /\ TotalCount(<<"a">>) = 4

\* C13: the loop is never entered when the configuration file is missing,
\* cannot be parsed or yields no endpoint: the program has then exited with
\* status 1 and monitor_endpoints was not called (no session, no cycle). The
\* loop runs on a parsed, non-empty list only.
C13_NoLoopWithoutEndpoints ==
  /\ (config.kind \in {"missing", "unparsable"}
        \/ (config.kind \in {"empty", "parsed"} /\ Len(config.value) = 0))
       => /\ pc = "exited"
          /\ exit_code = 1
          /\ session.created = 0
          /\ cycle = 0
          /\ endpoints = <<>>
  /\ pc \notin {"main", "exited"}
       => /\ config.kind = "parsed"
          /\ Len(endpoints) > 0
          /\ endpoints = config.value

\* C13 witness: the file could not be parsed and the program has exited with 1.
C13_Witness ==
  /\ pc = "exited"
  /\ config.kind = "unparsable"
  /\ exit_code = 1
  /\ session.created = 0

\* C14 (as claimed): the update for one endpoint is atomic: in no reachable
\* state, and so at no point where an interruption can take effect, has an
\* outcome been counted in a domain's total without being counted in its up or
\* down counter.
C14_NoHalfRecordedOutcome ==
  \A d \in Domains : TotalCount(d) = UpCount(d) + DownCount(d)

\* The order of the loop: probing, then the report, then the sleep, then the
\* first probe of the next cycle; and no step of the loop leaves it except an
\* interruption.
C15_Step ==
  /\ pc \in LoopPcs => pc' \in LoopPcs \cup {"interrupted"}
  /\ (pc = "for" /\ pc' = "report") => i = Len(endpoints)
  /\ (pc = "report" /\ pc' # "interrupted") => (pc' = "sleep" /\ reports' = reports + 1)
  /\ (pc = "sleep" /\ pc' # "interrupted") => (pc' = "for" /\ cycle' = cycle + 1 /\ i' = 0)

\* C15 (as claimed): the loop has no terminal state and goes Probing ->
\* Reporting -> Sleeping -> Probing: whatever the probes give, a started cycle
\* goes on to its report, the sleep follows the report and precedes the first
\* probe of the next cycle, and only an interruption ends the loop.
C15_LoopNeverEnds == [][C15_Step]_vars

\* The steps of the loop other than the two increments of a recording: the
\* for statement, the probe (request and classification), the report, the sleep.
C17_Step ==
  pc \in {"for", "request", "classify", "report", "sleep"} =>
    /\ domain_stats' = domain_stats
    /\ domain_totals' = domain_totals

\* C17: only the recording changes the aggregation state: probing an endpoint,
\* printing the report and sleeping leave every counter of every domain and
\* the set of known domains as they are.
C17_OnlyRecordingWrites == [][C17_Step]_vars

\* C17 witness: a report has been printed and the loop has gone through its
\* sleep and a probe of the next cycle with the counters of the first cycle.
C17_Witness ==
  /\ pc = "total"
  /\ cycle = 2
  /\ reports = 1
  /\ Len(endpoints) = 2
  /\ TotalCount(<<"a">>) = 2
  /\ UpCount(<<"a">>) = 1
  /\ DownCount(<<"a">>) = 1

\* C19: whenever a report is printed, at the end of every cycle, every domain
\* has up + down = total, and domain_stats and domain_totals have the same keys.
C19_UpPlusDownIsTotal ==
  pc \in {"report", "sleep"} =>
    /\ StatDomains = DOMAIN domain_totals
    /\ \A d \in Domains : UpCount(d) + DownCount(d) = TotalCount(d)
    /\ \A k \in 1..Len(endpoints) : NetLoc(endpoints[k].url) \in StatDomains

\* C19 witness: a report over two domains, one of them with both an UP and a
\* DOWN outcome.
C19_Witness ==
  /\ pc = "report"
  /\ StatDomains = {<<"a">>, <<"b">>}
  /\ UpCount(<<"a">>) = 1
  /\ DownCount(<<"a">>) = 1
  /\ TotalCount(<<"a">>) = 2
  /\ DownCount(<<"b">>) = 1
  /\ TotalCount(<<"b">>) = 1

\* C20: every percentage printed is an integer from 0 to 100, and when
\* 100 * upCount / totalCount lies halfway between two integers the even one
\* is printed: 1 of 8 gives 12 and 3 of 8 gives 38.
C20_HalfToEven ==
  pc = "sleep" =>
    \A k \in 1..Len(report) :
      LET p == report[k].percent
          u == domain_stats[k].up
          t == TotalCount(domain_stats[k].domain)
      IN /\ p \in 0..100
         /\ (t > 0 /\ 2 * Abs(100 * u - p * t) = t) => p % 2 = 0
         /\ (u = 1 /\ t = 8) => p = 12
         /\ (u = 3 /\ t = 8) => p = 38

\* C20 witness: 1 of 8 printed as 12 and 3 of 8 printed as 38.
C20_Witness ==
  /\ pc = "sleep"
  /\ UpCount(DomainA) = 1 /\ TotalCount(DomainA) = 8
  /\ UpCount(DomainB) = 3 /\ TotalCount(DomainB) = 8
  /\ report = <<[domain |-> DomainA, percent |-> 12], [domain |-> DomainB, percent |-> 38]>>

\* C18: one session is created per run, before the first probe, with
\* max_retries = 0 for http and for https; every request of every cycle goes
\* through that session and is attempted exactly once.
C18_OneSessionNoRetry ==
  /\ pc \in {"main", "monitor", "exited"} => (session.created = 0 /\ Len(issued) = 0)
  /\ pc \notin {"main", "monitor", "exited"} =>
       /\ session.created = 1
       /\ session.max_retries_http = 0
       /\ session.max_retries_https = 0
  /\ Len(issued) > 0 => (req.session = 1 /\ req.attempts = 1)

\* C18 witness: a request of the second cycle, issued once through the one
\* session of the run.
C18_Witness ==
  /\ pc = "classify"
  /\ cycle = 2
  /\ Len(issued) > Len(endpoints)
  /\ session.created = 1
  /\ req.session = 1
  /\ req.attempts = 1

\* The threads that record for domain d, and those of them whose outcome is UP.
RecordersOf(d) == {t \in Threads : recorders[t].domain = d}
UpRecordersOf(d) == {t \in RecordersOf(d) : recorders[t].status = "UP"}

\* C16 (as claimed): the increments are atomic per domain, not read-modify-
\* write: when two probes are recorded concurrently no increment is lost, the
\* total of a domain has grown by the number of recordings for it (by two when
\* both are for it) and its up count by the number of UP outcomes among them.
C16_NoLostIncrement ==
  (\A t \in Threads : recorders[t].pc = "done") =>
    \A d \in {DomainA, DomainB} :
      /\ TotalCount(d) = Cardinality(RecordersOf(d))
      /\ UpCount(d) = Cardinality(UpRecordersOf(d))

====
